---- MODULE Spec2Model ----
(***************************************************************************)
(* Model of submission/cicd/deploy.py: the deploy / rollback / status      *)
(* commands, the polling health check, and the kubectl platform they       *)
(* drive.  One run is one invocation: either of main() with a parsed       *)
(* command line, or of a function of the module called directly.           *)
(***************************************************************************)
EXTENDS Integers, Sequences, FiniteSets, TLC

\* ---------------------------------------------------------------------
\* Program constants
\* ---------------------------------------------------------------------
HEALTH_CHECK_INTERVAL == 10
DefaultTimeout == 300
RollbackTimeout == 180
SubTimeout == 10
None == -1

\* ---------------------------------------------------------------------
\* Bounds of the model
\* ---------------------------------------------------------------------
MaxRuns == 2
MaxRevision == 2
MaxTimeout == 30

ENVIRONMENTS == {"staging", "production"}
ImageTags == {"v1.4.2", "v1.5.0"}
Commands == {"deploy", "rollback", "status", "health_check"}

\* the values --timeout / health_check(timeout=...) are drawn from
TimeoutChoices == {-HEALTH_CHECK_INTERVAL, 0, 5, 20, MaxTimeout}
\* the values --revision is drawn from (None: the option was not given)
RevisionChoices == {None} \cup (0 .. MaxRevision)
\* how long one kubectl query of the health check takes
Latencies == {0, SubTimeout}

\* kubectl's output, as the list of its words
TextOk == <<"deployment", "video-processor", "successfully", "rolled", "out">>
TextWaiting == <<"Waiting", "for", "deployment", "rollout", "to", "finish">>
TextTimedOut == <<"error:", "timed", "out", "waiting", "for", "the", "condition">>
TextEmpty == <<>>
SuccessPhrase == <<"successfully", "rolled", "out">>
RolloutTexts == {TextOk, TextWaiting, TextTimedOut, TextEmpty}

VARIABLES
    run,              \* number of the current invocation
    req,              \* the invocation: command, how it was entered, its arguments
    mode,             \* the platform during this run: "healthy" or "any"
    platform,         \* the Target on the platform: revision, image, previous image, annotation
    pc,               \* position in the program
    outcome,          \* how the run ended ("running" until then)
    now,              \* time.time(), counted from the start of the run
    confirmed,        \* the answer to confirm(): "unasked", "yes", "no"
    current_revision, \* deploy's local: NoSnapshot or the words kubectl printed
    cmds,             \* the deploy / rollback / status commands sent to the platform, in order
    sent,             \* the kinds of command sent to the platform in this run
    hc,               \* health_check's frame: timeout, deadline, attempt, rollout_status, ...
                      \* log, one entry per call of health_check in this run, and
                      \* queried, the queries made in the current attempt
    rb,               \* rollback's frame: calls and the revision argument of each
    rejected          \* the kind of the command the platform rejected in this run, or "none"

vars == <<run, req, mode, platform, pc, outcome, now, confirmed, current_revision,
          cmds, sent, hc, rb, rejected>>

\* ---------------------------------------------------------------------
\* Helpers
\* ---------------------------------------------------------------------
NoSnapshot == <<"<None>">>

\* `phrase in text` on word lists
Contains(text, phrase) ==
    \E i \in 0 .. (Len(text) - Len(phrase)) :
        \A j \in 1 .. Len(phrase) : text[i + j] = phrase[j]

HasSuccessPhrase(text) == Contains(text, SuccessPhrase)

\* `while time.time() < deadline`
LoopGuardInclusive(t, deadline) == t <= deadline
LoopGuard(t, deadline) == t < deadline

\* Python truthiness of rollback's revision argument: `if revision:`
Truthy(revision) == revision # None /\ revision # 0

\* exit status of the process for each way a run can end
ExitCode(o) ==
    CASE o = "returned" -> 0
      [] o = "SystemExit0" -> 0
      [] o = "SystemExit1" -> 1
      [] o = "SystemExit2" -> 2
      [] OTHER -> 1  \* an uncaught exception

Outcomes == {"running", "returned", "SystemExit0", "SystemExit1", "SystemExit2",
             "TypeError", "NameError", "CalledProcessError"}

Mutations == {"set_image", "annotate", "rollout_undo", "rollout_undo_to"}
Queries == {"rollout_history_revision", "rollout_status", "get_replicas",
            "get_deployment", "get_pods", "rollout_history", "get_events"}

\* ---------------------------------------------------------------------
\* The platform's reaction to a mutating command
\* ---------------------------------------------------------------------
ApplySetImage(p, tag) ==
    IF tag = p.image THEN p
    ELSE [p EXCEPT !.revision = p.revision + 1, !.image = tag, !.prev = p.image]

ApplyAnnotate(p, tag) == [p EXCEPT !.annotation = tag]

ApplyUndo(p) ==
    [p EXCEPT !.revision = p.revision + 1, !.image = p.prev, !.prev = p.image]

\* the Target after an accepted command of the given kind; queries leave it alone
PlatformApply(p, kind, tag) ==
    CASE kind = "set_image" -> ApplySetImage(p, tag)
      [] kind = "annotate" -> ApplyAnnotate(p, tag)
      [] kind \in {"rollout_undo", "rollout_undo_to"} -> ApplyUndo(p)
      [] OTHER -> p

\* ---------------------------------------------------------------------
\* Initial state and the start of a run
\* ---------------------------------------------------------------------
\* rollback, status and health_check only log their environment, so one value
\* stands for both
Requests ==
    [command : {"deploy"}, viaMain : BOOLEAN, environment : ENVIRONMENTS,
     image_tag : ImageTags, dry_run : BOOLEAN,
     timeout : TimeoutChoices \cup {DefaultTimeout}, revision : {None}]
    \cup
    [command : {"rollback"}, viaMain : {TRUE}, environment : {"staging"},
     image_tag : {"v1.4.2"}, dry_run : {FALSE},
     timeout : {DefaultTimeout}, revision : RevisionChoices]
    \cup
    [command : {"status"}, viaMain : {TRUE}, environment : {"staging"},
     image_tag : {"v1.4.2"}, dry_run : {FALSE},
     timeout : {DefaultTimeout}, revision : {None}]
    \cup
    [command : {"health_check"}, viaMain : {FALSE}, environment : {"staging"},
     image_tag : {"v1.4.2"}, dry_run : {FALSE},
     timeout : TimeoutChoices, revision : {None}]

\* a direct call of deploy() has no timeout argument: only main() carries one
ValidRequest(r) ==
    (r.command = "deploy" /\ ~r.viaMain) => r.timeout = DefaultTimeout

EntryPoint(r) == IF r.viaMain THEN "main" ELSE r.command

FreshHc ==
    [log |-> <<>>, caller |-> "none", timeout |-> 0, deadline |-> 0, attempt |-> 0,
     sleeps |-> 0, rollout_status |-> TextEmpty, sawSuccess |-> FALSE,
     queried |-> {}, result |-> "none"]

FreshRb == [calls |-> 0, revision |-> None]

StartRun(r, m) ==
    /\ req' = r
    /\ mode' = m
    /\ pc' = EntryPoint(r)
    /\ outcome' = "running"
    /\ now' = 0
    /\ confirmed' = "unasked"
    /\ current_revision' = NoSnapshot
    /\ cmds' = <<>>
    /\ sent' = {}
    /\ hc' = FreshHc
    /\ rb' = FreshRb
    /\ rejected' = "none"

Init ==
    /\ run = 1
    /\ platform \in [revision : {1}, image : {"v1.4.1"},
                     prev : {"v1.4.0"}, annotation : {"v1.4.1"}]
    /\ req \in {r \in Requests : ValidRequest(r)}
    /\ mode \in {"healthy", "any"}
    /\ pc = EntryPoint(req)
    /\ outcome = "running"
    /\ now = 0
    /\ confirmed = "unasked"
    /\ current_revision = NoSnapshot
    /\ cmds = <<>>
    /\ sent = {}
    /\ hc = FreshHc
    /\ rb = FreshRb
    /\ rejected = "none"

\* the next invocation, against the platform as the last one left it
NewRun ==
    /\ pc = "done"
    /\ run < MaxRuns
    /\ run' = run + 1
    /\ \E r \in {q \in Requests : ValidRequest(q)}, m \in {"healthy", "any"} :
           StartRun(r, m)
    /\ UNCHANGED platform

Finish(o) ==
    /\ pc' = "done"
    /\ outcome' = o


\* ---------------------------------------------------------------------
\* What the platform (and kubectl) may answer in each mode
\* ---------------------------------------------------------------------
Raises == <<"<raise>">>
RevisionText(n) == <<ToString(n)>>

\* a command run with check=True is accepted (TRUE) or rejected (FALSE)
Accepts(m) == IF m = "healthy" THEN {TRUE} ELSE BOOLEAN

StatusAnswers(m) ==
    IF m = "healthy" THEN {TextOk} ELSE RolloutTexts \cup {Raises}

ReplicaAnswers(m) ==
    IF m = "healthy" THEN {<<"3/3">>} ELSE {<<"3/3">>, <<"1/3">>, TextEmpty, Raises}

SnapshotAnswers(m, p) ==
    IF m = "healthy" THEN {RevisionText(p.revision)}
    ELSE {RevisionText(p.revision), TextEmpty, <<"unknown">>, Raises}

\* run(cmd, check=True) raises CalledProcessError on a non-zero status; the
\* snapshot and the two queries of the health check are run with check=False
ChecksStatusNever(kind) == FALSE
ChecksStatus(kind) ==
    kind \notin {"rollout_history_revision", "rollout_status", "get_replicas"}

\* ---------------------------------------------------------------------
\* main()
\* ---------------------------------------------------------------------
\* main() passes timeout=args.timeout to deploy(), whose signature is
\* deploy(environment, image_tag, dry_run=False): the call raises TypeError
\* before deploy's body runs.
MainCallsDeploy == Finish("TypeError")

Main ==
    /\ pc = "main"
    /\ CASE req.command = "deploy" -> MainCallsDeploy
         [] req.command = "rollback" -> pc' = "rollback" /\ UNCHANGED outcome
         [] OTHER -> pc' = "status1" /\ UNCHANGED outcome
    /\ UNCHANGED <<rejected, run, req, mode, platform, now, confirmed, current_revision,
                   cmds, sent, hc, rb>>

\* ---------------------------------------------------------------------
\* deploy()
\* ---------------------------------------------------------------------
NeedsConfirmationNever(environment, dry_run) == FALSE
NeedsConfirmation(environment, dry_run) == environment = "production" /\ ~dry_run

\* the safety gate: confirm() exits 0 unless the answer is "y"
DeployGate ==
    /\ pc = "deploy"
    /\ IF NeedsConfirmation(req.environment, req.dry_run)
       THEN \E answer \in {"y", "n"} :
                IF answer # "y"
                THEN confirmed' = "no" /\ Finish("SystemExit0")
                ELSE confirmed' = "yes" /\ pc' = "snapshot" /\ UNCHANGED outcome
       ELSE pc' = "snapshot" /\ UNCHANGED <<confirmed, outcome>>
    /\ UNCHANGED <<rejected, run, req, mode, platform, now, current_revision, cmds, sent, hc, rb>>

\* `if not dry_run:` around the snapshot query
TakesSnapshotInverted(dry_run) == dry_run
TakesSnapshot(dry_run) == ~dry_run

\* record the current revision (check=False, exceptions swallowed)
DeploySnapshot ==
    /\ pc = "snapshot"
    /\ pc' = "set_image"
    /\ IF TakesSnapshot(req.dry_run)
       THEN /\ cmds' = Append(cmds, "rollout_history_revision")
            /\ sent' = sent \cup {"rollout_history_revision"}
            /\ \E a \in SnapshotAnswers(mode, platform) :
                   current_revision' = IF a = Raises THEN NoSnapshot ELSE a
       ELSE UNCHANGED <<cmds, sent, current_revision>>
    /\ UNCHANGED <<rejected, run, req, mode, platform, outcome, now, confirmed, hc, rb>>

\* run(cmd, dry_run): with dry_run the command is logged, not executed
Executes(dry_run) == ~dry_run

DeploySetImage ==
    /\ pc = "set_image"
    /\ IF Executes(req.dry_run)
       THEN /\ cmds' = Append(cmds, "set_image")
            /\ sent' = sent \cup {"set_image"}
            /\ \E ok \in Accepts(mode) :
                   IF ok
                   THEN /\ platform' = PlatformApply(platform, "set_image", req.image_tag)
                        /\ pc' = "annotate"
                        /\ UNCHANGED <<outcome, rejected>>
                   ELSE /\ rejected' = "set_image"
                        /\ UNCHANGED platform
                        /\ IF ChecksStatus("set_image")
                           THEN Finish("CalledProcessError")
                           ELSE pc' = "annotate" /\ UNCHANGED outcome
       ELSE pc' = "annotate" /\ UNCHANGED <<cmds, sent, platform, outcome, rejected>>
    /\ UNCHANGED <<run, req, mode, now, confirmed, current_revision, hc, rb>>

DeployAnnotate ==
    /\ pc = "annotate"
    /\ IF Executes(req.dry_run)
       THEN /\ cmds' = Append(cmds, "annotate")
            /\ sent' = sent \cup {"annotate"}
            /\ \E ok \in Accepts(mode) :
                   IF ok
                   THEN /\ platform' = PlatformApply(platform, "annotate", req.image_tag)
                        /\ pc' = "after_update"
                        /\ UNCHANGED <<outcome, rejected>>
                   ELSE /\ rejected' = "annotate"
                        /\ UNCHANGED platform
                        /\ IF ChecksStatus("annotate")
                           THEN Finish("CalledProcessError")
                           ELSE pc' = "after_update" /\ UNCHANGED outcome
       ELSE pc' = "after_update" /\ UNCHANGED <<cmds, sent, platform, outcome, rejected>>
    /\ UNCHANGED <<run, req, mode, now, confirmed, current_revision, hc, rb>>

\* `if dry_run: return`, else `health_check(environment, timeout=timeout)`:
\* deploy has no parameter, local or global named timeout, so evaluating the
\* argument raises NameError before health_check is entered.
DeployHealthCheckCall == Finish("NameError")

DeployAfterUpdate ==
    /\ pc = "after_update"
    /\ IF req.dry_run THEN Finish("returned") ELSE DeployHealthCheckCall
    /\ UNCHANGED <<rejected, run, req, mode, platform, now, confirmed, current_revision,
                   cmds, sent, hc, rb>>

\* ---------------------------------------------------------------------
\* health_check()
\* ---------------------------------------------------------------------
HealthCheckEnter(caller, timeout) ==
    /\ hc' = [FreshHc EXCEPT !.caller = caller, !.timeout = timeout,
                             !.deadline = now + timeout,
                             !.log = Append(hc.log, [caller |-> caller,
                                                     timeout |-> timeout,
                                                     start |-> now,
                                                     deadline |-> now + timeout,
                                                     attempts |-> 0])]
    /\ pc' = "hc_loop"

\* a direct call health_check(environment, timeout)
HealthCheckCall ==
    /\ pc = "health_check"
    /\ HealthCheckEnter("direct", req.timeout)
    /\ UNCHANGED <<rejected, run, req, mode, platform, outcome, now, confirmed,
                   current_revision, cmds, sent, rb>>

\* the loop test; on exit the function logs the timeout and returns False
HcLoop ==
    /\ pc = "hc_loop"
    /\ IF LoopGuard(now, hc.deadline)
       THEN /\ hc' = [hc EXCEPT !.attempt = hc.attempt + 1,
                                !.queried = {},
                                !.log[Len(hc.log)].attempts = hc.attempt + 1]
            /\ pc' = "hc_status"
       ELSE /\ hc' = [hc EXCEPT !.result = "False"]
            /\ pc' = "hc_return"
    /\ UNCHANGED <<rejected, run, req, mode, platform, outcome, now, confirmed,
                   current_revision, cmds, sent, rb>>

\* kubectl rollout status --timeout=10s (check=False); an exception goes to
\* the except clause and from there to the sleep
HcRolloutStatus ==
    /\ pc = "hc_status"
    /\ sent' = sent \cup {"rollout_status"}
    /\ \E a \in StatusAnswers(mode), lat \in Latencies :
           /\ now' = now + lat
           /\ IF a = Raises
              THEN /\ pc' = "hc_sleep"
                   /\ hc' = [hc EXCEPT !.queried = @ \cup {"rollout_status"}]
              ELSE /\ pc' = "hc_ready"
                   /\ hc' = [hc EXCEPT !.rollout_status = a,
                                       !.queried = @ \cup {"rollout_status"},
                                       !.sawSuccess = @ \/ HasSuccessPhrase(a)]
    /\ UNCHANGED <<rejected, run, req, mode, platform, outcome, confirmed,
                   current_revision, cmds, rb>>

\* kubectl get deployment -o jsonpath=ready/total (check=False), then the
\* test of the rollout status text
HcReadyReplicas ==
    /\ pc = "hc_ready"
    /\ sent' = sent \cup {"get_replicas"}
    /\ \E a \in ReplicaAnswers(mode), lat \in Latencies :
           /\ now' = now + lat
           /\ IF a = Raises
              THEN /\ pc' = "hc_sleep"
                   /\ hc' = [hc EXCEPT !.queried = @ \cup {"get_replicas"}]
              ELSE IF HasSuccessPhrase(hc.rollout_status)
                   THEN /\ pc' = "hc_return"
                        /\ hc' = [hc EXCEPT !.queried = @ \cup {"get_replicas"},
                                            !.result = "True"]
                   ELSE /\ pc' = "hc_sleep"
                        /\ hc' = [hc EXCEPT !.queried = @ \cup {"get_replicas"}]
    /\ UNCHANGED <<rejected, run, req, mode, platform, outcome, confirmed,
                   current_revision, cmds, rb>>

\* time.sleep(HEALTH_CHECK_INTERVAL)
HcSleep ==
    /\ pc = "hc_sleep"
    /\ now' = now + HEALTH_CHECK_INTERVAL
    /\ hc' = [hc EXCEPT !.sleeps = hc.sleeps + 1]
    /\ pc' = "hc_loop"
    /\ UNCHANGED <<rejected, run, req, mode, platform, outcome, confirmed,
                   current_revision, cmds, sent, rb>>

\* the direct caller gets the verdict back
HealthCheckReturn ==
    /\ pc = "hc_return"
    /\ hc.caller = "direct"
    /\ Finish("returned")
    /\ UNCHANGED <<rejected, run, req, mode, platform, now, confirmed, current_revision,
                   cmds, sent, hc, rb>>

\* ---------------------------------------------------------------------
\* rollback()
\* ---------------------------------------------------------------------
UndoKind(revision) == IF Truthy(revision) THEN "rollout_undo_to" ELSE "rollout_undo"

\* rollout undo (check=True), then the re-check with the fixed timeout
Rollback ==
    /\ pc = "rollback"
    /\ rb' = [calls |-> rb.calls + 1, revision |-> req.revision]
    /\ cmds' = Append(cmds, UndoKind(req.revision))
    /\ sent' = sent \cup {UndoKind(req.revision)}
    /\ \E ok \in Accepts(mode) :
           IF ok
           THEN /\ platform' = PlatformApply(platform, UndoKind(req.revision), req.image_tag)
                /\ HealthCheckEnter("rollback", RollbackTimeout)
                /\ UNCHANGED <<outcome, rejected>>
           ELSE /\ rejected' = UndoKind(req.revision)
                /\ UNCHANGED platform
                /\ IF ChecksStatus(UndoKind(req.revision))
                   THEN Finish("CalledProcessError") /\ UNCHANGED hc
                   ELSE HealthCheckEnter("rollback", RollbackTimeout) /\ UNCHANGED outcome
    /\ UNCHANGED <<run, req, mode, now, confirmed, current_revision>>

\* `if not health_check(environment, timeout=180): sys.exit(2)`
RecheckFailedExitOne == "SystemExit1"
RecheckFailedExit == "SystemExit2"

\* a rollback that starts over when its re-check fails
RollbackRecheckRetry ==
    /\ pc = "hc_return"
    /\ hc.caller = "rollback"
    /\ IF hc.result = "False"
       THEN pc' = "rollback" /\ UNCHANGED outcome
       ELSE Finish("returned")
    /\ UNCHANGED <<rejected, run, req, mode, platform, now, confirmed, current_revision,
                   cmds, sent, hc, rb>>

RollbackRecheck ==
    /\ pc = "hc_return"
    /\ hc.caller = "rollback"
    /\ IF hc.result = "False" THEN Finish(RecheckFailedExit) ELSE Finish("returned")
    /\ UNCHANGED <<rejected, run, req, mode, platform, now, confirmed, current_revision,
                   cmds, sent, hc, rb>>

\* ---------------------------------------------------------------------
\* status()
\* ---------------------------------------------------------------------
StatusCommandUndo(step) ==
    CASE step = "status1" -> "get_deployment"
      [] step = "status2" -> "get_pods"
      [] step = "status3" -> "rollout_undo"
      [] step = "status4" -> "get_events"

StatusCommand(step) ==
    CASE step = "status1" -> "get_deployment"
      [] step = "status2" -> "get_pods"
      [] step = "status3" -> "rollout_history"
      [] step = "status4" -> "get_events"

StatusNext(step) ==
    CASE step = "status1" -> "status2"
      [] step = "status2" -> "status3"
      [] step = "status3" -> "status4"
      [] step = "status4" -> "done"

\* the four kubectl queries of status(), each with check=True
Status ==
    /\ pc \in {"status1", "status2", "status3", "status4"}
    /\ cmds' = Append(cmds, StatusCommand(pc))
    /\ sent' = sent \cup {StatusCommand(pc)}
    /\ \E ok \in Accepts(mode) :
           IF ok \/ ~ChecksStatus(StatusCommand(pc))
           THEN /\ platform' = IF ok
                                THEN PlatformApply(platform, StatusCommand(pc), req.image_tag)
                                ELSE platform
                /\ rejected' = IF ok THEN rejected ELSE StatusCommand(pc)
                /\ pc' = StatusNext(pc)
                /\ outcome' = IF StatusNext(pc) = "done" THEN "returned" ELSE outcome
           ELSE /\ rejected' = StatusCommand(pc)
                /\ Finish("CalledProcessError")
                /\ UNCHANGED platform
    /\ UNCHANGED <<run, req, mode, now, confirmed, current_revision, hc, rb>>

\* ---------------------------------------------------------------------
\* Specification
\* ---------------------------------------------------------------------
Next ==
    \/ Main
    \/ DeployGate
    \/ DeploySnapshot
    \/ DeploySetImage
    \/ DeployAnnotate
    \/ DeployAfterUpdate
    \/ HealthCheckCall
    \/ HcLoop
    \/ HcRolloutStatus
    \/ HcReadyReplicas
    \/ HcSleep
    \/ HealthCheckReturn
    \/ Rollback
    \/ RollbackRecheck
    \/ Status
    \/ NewRun

Spec == Init /\ [][Next]_vars

\* one sequential flow of control: a step that can be taken is taken
\* (every kubectl call returns, the prompt is answered)
FairSpec == Spec /\ WF_vars(Next)

TypeOK ==
    /\ run \in 1 .. MaxRuns
    /\ req \in Requests
    /\ outcome \in Outcomes
    /\ sent \subseteq (Mutations \cup Queries)
    /\ (pc = "done") <=> (outcome # "running")


\* ---------------------------------------------------------------------
\* Shorthands for the claims
\* ---------------------------------------------------------------------
Done == pc = "done"
IsDeploy == req.command = "deploy"
LiveDeploy == IsDeploy /\ ~req.dry_run
HcCalls == Len(hc.log)
PollKinds == {"rollout_status", "get_replicas"}
UndoKinds == {"rollout_undo", "rollout_undo_to"}
\* the update phase of a live deploy went through: nobody declined, nothing was rejected
UpdateWentThrough == confirmed # "no" /\ outcome # "CalledProcessError"

\* `int(current_revision) if current_revision else None`, for the texts of the model
CapturedRevision(text) ==
    IF \E n \in 0 .. (MaxRevision + 2 * MaxRuns) : text = RevisionText(n)
    THEN CHOOSE n \in 0 .. (MaxRevision + 2 * MaxRuns) : text = RevisionText(n)
    ELSE None

\* ---------------------------------------------------------------------
\* C1: a deploy request with dry-run set sends no command to the platform,
\* never enters health_check or rollback, and ends in the success outcome.
\* Stated as the claim; main() refutes the last part (TypeError).
\* ---------------------------------------------------------------------
C1_DryRunNoEffectAndSuccess ==
    (IsDeploy /\ req.dry_run) =>
        /\ sent = {}
        /\ cmds = <<>>
        /\ HcCalls = 0
        /\ rb.calls = 0
        /\ (Done => outcome = "returned")

\* ---------------------------------------------------------------------
\* C2: in a live deploy whose rollout-status query answers with the success
\* phrase (a healthy platform, a positive timeout), deploy ends Succeeded
\* with exit code 0 and rollback is never invoked.
\* ---------------------------------------------------------------------
C2_SuccessPhraseLeadsToSucceeded ==
    (Done /\ LiveDeploy /\ mode = "healthy" /\ req.timeout > 0 /\ confirmed # "no") =>
        /\ outcome = "returned"
        /\ ExitCode(outcome) = 0
        /\ rb.calls = 0

\* ---------------------------------------------------------------------
\* C3: in a live deploy whose update went through and whose rollout-status
\* query never returned the success phrase, rollback was invoked exactly
\* once, with the revision the snapshot captured (None when none was).
\* ---------------------------------------------------------------------
C3_NoSuccessRollsBackOnce ==
    (Done /\ LiveDeploy /\ UpdateWentThrough /\ ~hc.sawSuccess) =>
        /\ rb.calls = 1
        /\ rb.revision = CapturedRevision(current_revision)

\* ---------------------------------------------------------------------
\* C4: the exit code of a finished deploy or rollback command is 0 for a
\* success, a dry-run or a declined confirmation, 1 only when the deploy's
\* health check failed and the automatic rollback was attempted, and 2
\* whenever the rollback itself failed.
\* ---------------------------------------------------------------------
C4_ExitCodes ==
    (Done /\ req.viaMain /\ req.command \in {"deploy", "rollback"}) =>
        LET code == ExitCode(outcome)
            rollbackFailed == rb.calls >= 1 /\ outcome \in {"CalledProcessError", "SystemExit2"}
        IN /\ code \in {0, 1, 2}
           /\ (IsDeploy /\ req.dry_run) => code = 0
           /\ confirmed = "no" => code = 0
           /\ code = 1 => (IsDeploy /\ HcCalls >= 1 /\ rb.calls = 1)
           /\ rollbackFailed => code = 2
           /\ code = 0 => ~rollbackFailed

\* ---------------------------------------------------------------------
\* C5: when rollback is invoked with an explicit revision and the platform
\* rejects the rollout undo, the run ends with exit code 2 and nothing else
\* was sent to the platform (no re-check, no retry).
\* ---------------------------------------------------------------------
C5_RejectedUndoIsFatal ==
    (Done /\ req.command = "rollback" /\ Truthy(req.revision)
          /\ outcome = "CalledProcessError") =>
        /\ ExitCode(outcome) = 2
        /\ cmds = <<"rollout_undo_to">>
        /\ sent = {"rollout_undo_to"}
        /\ HcCalls = 0

\* ---------------------------------------------------------------------
\* C6: in a live deploy to production no command reaches the platform
\* unless the confirmation was affirmed; once it is declined the run has
\* ended with exit code 0, nothing sent, health_check and rollback not
\* invoked.
\* ---------------------------------------------------------------------
C6_ConfirmationGate ==
    (LiveDeploy /\ req.environment = "production") =>
        /\ (confirmed # "yes" => (sent = {} /\ cmds = <<>>))
        /\ (confirmed = "no" =>
               /\ Done
               /\ outcome = "SystemExit0"
               /\ ExitCode(outcome) = 0
               /\ HcCalls = 0
               /\ rb.calls = 0)

C6_Witness ==
    /\ LiveDeploy
    /\ req.environment = "production"
    /\ confirmed = "no"
    /\ Done

\* ---------------------------------------------------------------------
\* C7: health_check called with a timeout <= 0 makes no polling attempt
\* (no rollout-status query, no replica query, no sleep, no time spent) and
\* returns False.
\* ---------------------------------------------------------------------
C7_NonPositiveTimeoutNoPolls ==
    (HcCalls >= 1 /\ hc.timeout <= 0) =>
        /\ hc.attempt = 0
        /\ hc.log[HcCalls].attempts = 0
        /\ hc.sleeps = 0
        /\ sent \cap PollKinds = {}
        /\ now = hc.log[HcCalls].start
        /\ pc \in {"hc_loop", "hc_return", "done"}
        /\ (pc # "hc_loop" => hc.result = "False")

C7_Witness ==
    /\ req.command = "health_check"
    /\ hc.timeout = 0
    /\ Done
    /\ hc.result = "False"

\* ---------------------------------------------------------------------
\* C8: a live deploy to production with timeout 20 whose update went
\* through and whose rollout status never reported success made exactly 2
\* polling attempts in the deploy's health check, then invoked rollback
\* with the pre-deploy revision; with a successful re-check it ended with
\* exit code 1.
\* ---------------------------------------------------------------------
C8_ScenarioB ==
    (Done /\ LiveDeploy /\ req.viaMain /\ req.environment = "production"
          /\ req.timeout = 20 /\ UpdateWentThrough /\ mode = "any") =>
        /\ HcCalls >= 1
        /\ hc.log[1].caller = "deploy"
        /\ hc.log[1].attempts = 2
        /\ rb.calls = 1
        /\ rb.revision = CapturedRevision(current_revision)
        /\ (hc.result = "True" => ExitCode(outcome) = 1)

\* ---------------------------------------------------------------------
\* C9: status never mutates the Target: while a status command runs, the
\* Target stays as it was and every command sent is a read-only query,
\* whatever the earlier runs did to the platform.
\* ---------------------------------------------------------------------
C9_StatusReadOnly ==
    [][(req.command = "status" /\ run' = run) =>
           (platform' = platform /\ sent' \subseteq Queries)]_vars

C9_Witness ==
    /\ req.command = "status"
    /\ run = 2
    /\ platform.image # "v1.4.1"
    /\ outcome = "returned"
    /\ cmds = <<"get_deployment", "get_pods", "rollout_history", "get_events">>

\* ---------------------------------------------------------------------
\* C10: a deploy command given timeout T whose update went through has
\* called health_check with timeout T, polling against the deadline
\* now + T.
\* ---------------------------------------------------------------------
C10_TimeoutReachesHealthCheck ==
    (Done /\ LiveDeploy /\ req.viaMain /\ UpdateWentThrough) =>
        /\ HcCalls >= 1
        /\ hc.log[1].caller = "deploy"
        /\ hc.log[1].timeout = req.timeout
        /\ hc.log[1].deadline = hc.log[1].start + req.timeout


\* ---------------------------------------------------------------------
\* Shorthands for C11..C20
\* ---------------------------------------------------------------------
UpdateSequence == <<"rollout_history_revision", "set_image", "annotate">>
IsPrefix(a, b) == Len(a) <= Len(b) /\ \A i \in 1 .. Len(a) : a[i] = b[i]
Count(seq, kinds) == Cardinality({i \in 1 .. Len(seq) : seq[i] \in kinds})
SnapshotUnusable == current_revision \in {NoSnapshot, TextEmpty, <<"unknown">>}
ListedOutcomes == {"returned", "SystemExit0", "SystemExit1", "SystemExit2",
                   "CalledProcessError"}

\* the controller's states, in the order the spec gives them
PhaseRank ==
    CASE pc \in {"main", "deploy"} -> 0
      [] pc \in {"snapshot", "set_image", "annotate", "after_update"} -> 1
      [] pc \in {"hc_loop", "hc_status", "hc_ready", "hc_sleep", "hc_return"}
           /\ hc.caller = "deploy" -> 2
      [] pc = "rollback" -> 3
      [] pc \in {"hc_loop", "hc_status", "hc_ready", "hc_sleep", "hc_return"}
           /\ hc.caller = "rollback" -> 3
      [] pc = "done" -> 4
      [] OTHER -> 0

\* every run ends: checked under FairSpec
Terminates == (pc # "done") ~> (pc = "done")

\* ---------------------------------------------------------------------
\* C11: in a live deploy the commands sent are, in this order, the
\* revision snapshot, the image update and the annotation: no mutating
\* command goes out before the snapshot was attempted, and the annotation
\* never precedes the image update.
\* ---------------------------------------------------------------------
C11_SnapshotThenUpdateThenAnnotate ==
    LiveDeploy =>
        /\ IsPrefix(cmds, UpdateSequence)
        /\ (sent \cap Mutations # {} => "rollout_history_revision" \in sent)

C11_Witness ==
    /\ LiveDeploy
    /\ cmds = UpdateSequence
    /\ platform.annotation = req.image_tag

\* ---------------------------------------------------------------------
\* C12: a live deploy whose snapshot query failed or gave an unusable
\* answer still sends the image update and the annotation, runs the health
\* check, and ends without an uncaught error; a rollback it starts gets no
\* explicit revision.
\* ---------------------------------------------------------------------
C12_SnapshotFailureDoesNotBlock ==
    (Done /\ LiveDeploy /\ confirmed # "no" /\ rejected = "none"
          /\ "rollout_history_revision" \in sent /\ SnapshotUnusable) =>
        /\ cmds = UpdateSequence
        /\ HcCalls >= 1
        /\ hc.log[1].caller = "deploy"
        /\ outcome \in {"returned", "SystemExit1", "SystemExit2"}
        /\ (rb.calls >= 1 => rb.revision = None)

\* ---------------------------------------------------------------------
\* C13: a health_check with timeout T > 0 has returned no later than its
\* deadline start + T.
\* ---------------------------------------------------------------------
C13_ReturnsByDeadline ==
    (HcCalls >= 1 /\ hc.timeout > 0 /\ hc.result # "none") => now <= hc.deadline

\* ---------------------------------------------------------------------
\* C14: health_check returns True exactly on the first attempt whose
\* rollout-status answer contains the success phrase: never without the
\* phrase, and always once the phrase was seen, whatever the replica query
\* of that attempt did.
\* ---------------------------------------------------------------------
C14_HealthyIffSuccessPhrase ==
    HcCalls >= 1 =>
        /\ (hc.result = "True" => HasSuccessPhrase(hc.rollout_status))
        /\ ((hc.sawSuccess /\ pc # "hc_ready") => hc.result = "True")

\* ---------------------------------------------------------------------
\* C15: in health_check a failing query never leaves the function as an
\* error and never ends the loop before the deadline, and every attempt
\* that ends without a verdict has made both queries.
\* ---------------------------------------------------------------------
C15_QueriesIndependentBestEffort ==
    HcCalls >= 1 =>
        /\ (pc = "hc_sleep" => hc.queried = PollKinds)
        /\ (Done => outcome \in {"returned", "SystemExit2"})
        /\ (hc.result = "False" => now >= hc.deadline)

\* ---------------------------------------------------------------------
\* C16: when the platform rejects the image update or the annotation of a
\* live deploy, the run has ended at once with a non-zero exit status: the
\* rejected command is the last one sent, health_check and rollback were
\* not invoked.
\* ---------------------------------------------------------------------
C16_RejectedUpdatePropagates ==
    (LiveDeploy /\ rejected \in {"set_image", "annotate"}) =>
        /\ Done
        /\ outcome = "CalledProcessError"
        /\ ExitCode(outcome) # 0
        /\ cmds[Len(cmds)] = rejected
        /\ (rejected = "set_image" => "annotate" \notin sent)
        /\ HcCalls = 0
        /\ rb.calls = 0

C16_Witness ==
    /\ LiveDeploy
    /\ rejected = "annotate"
    /\ cmds = UpdateSequence
    /\ platform.image = req.image_tag
    /\ Done

\* ---------------------------------------------------------------------
\* C17: once the rollout undo of rollback was accepted, health_check runs
\* with the fixed timeout 180; the run ends returned (RolledBack) only if
\* that re-check returned True, and ends with exit code 2 (Fatal) if it
\* returned False.
\* ---------------------------------------------------------------------
C17_RecheckDecidesRollback ==
    (rb.calls >= 1 /\ rejected = "none") =>
        /\ HcCalls = 1
        /\ hc.log[1].caller = "rollback"
        /\ hc.timeout = RollbackTimeout
        /\ hc.deadline = hc.log[1].start + RollbackTimeout
        /\ (Done <=> hc.result # "none" /\ pc # "hc_return")
        /\ (Done /\ hc.result = "True" => outcome = "returned")
        /\ (Done /\ hc.result = "False" =>
               outcome = "SystemExit2" /\ ExitCode(outcome) = 2)

C17_Witness ==
    /\ req.command = "rollback"
    /\ rejected = "none"
    /\ hc.timeout = RollbackTimeout
    /\ hc.result = "False"
    /\ outcome = "SystemExit2"

\* ---------------------------------------------------------------------
\* C18: within one run of deploy or rollback the controller only moves
\* forward through its states, the image update is sent at most once, the
\* rollout undo at most once, and nothing is sent once the run has ended.
\* ---------------------------------------------------------------------
C18_ForwardProgress ==
    /\ [](req.command \in {"deploy", "rollback"} =>
            /\ Count(cmds, {"set_image"}) <= 1
            /\ Count(cmds, UndoKinds) <= 1
            /\ rb.calls <= 1)
    /\ [][(req.command \in {"deploy", "rollback"} /\ run' = run) =>
            /\ PhaseRank' >= PhaseRank
            /\ (Done => (cmds' = cmds /\ sent' = sent /\ platform' = platform))]_vars

C18_Witness ==
    /\ req.command = "rollback"
    /\ Done
    /\ outcome = "returned"
    /\ hc.attempt > 1
    /\ Count(cmds, UndoKinds) = 1

\* ---------------------------------------------------------------------
\* C19: rollback sends the undo with --to-revision whenever a revision
\* was given (0 included), and the undo without a revision only when none
\* was given.
\* ---------------------------------------------------------------------
C19_ExplicitRevisionCarried ==
    rb.calls >= 1 =>
        /\ (req.revision # None => cmds = <<"rollout_undo_to">>)
        /\ ("rollout_undo" \in sent => req.revision = None)

\* ---------------------------------------------------------------------
\* C20: a finished run of deploy or rollback has ended in one of
\* Succeeded, user-aborted, RolledBack, Fatal or an action failure, and a
\* health_check with timeout T makes at most T / 10 (rounded up) attempts.
\* ---------------------------------------------------------------------
C20_TerminalOutcome ==
    /\ (Done /\ req.command \in {"deploy", "rollback"}) => outcome \in ListedOutcomes
    /\ (Done <=> outcome # "running")
    /\ (hc.attempt > 0 => (hc.attempt - 1) * HEALTH_CHECK_INTERVAL < hc.timeout)

====
